---------------------------- MODULE Spec2Model ----------------------------
(***************************************************************************)
(* Model of zarc's C Huffman core (src/c/huffman.c):                       *)
(*   - huffman_build_codes      length-limited canonical code construction *)
(*   - rle_encode_lengths       code-length run-length encoder             *)
(*   - BitWriter                LSB-first bit packer                       *)
(*   - huffman_encode_dynamic_header                                       *)
(* C arrays are functions over 0..n-1 so that indices are the source's.    *)
(***************************************************************************)
EXTENDS Integers, Sequences, FiniteSets, TLC

(***************************************************************************)
(* Program constants.                                                      *)
(***************************************************************************)
MAX_BITS == 15
MAX_CL_BITS == 7
\* uint16_t wraps modulo 2^16
U16 == 65536
\* uint32_t values are held in their 32-bit two's-complement reading (TLC's
\* integers are 32-bit): UINT32_MAX is the all-ones word, and a subtraction
\* that wraps below zero shows as a negative number.  Unsigned comparisons
\* go through ULess.
UINT32_MAX == -1

(***************************************************************************)
(* Bounds of the explored inputs.                                          *)
(***************************************************************************)
MaxSyms == 6
MaxFreq == 3
MaxVal == 2
MaxEdge == 2
MaxMid == 11
MaxOver == 11
MaxHead == 1
MaxLenVal == 2
MaxStep == 1
MaxOut == 14
MaxDepth == 4

(***************************************************************************)
(* Machine arithmetic helpers.                                             *)
(***************************************************************************)
RECURSIVE Pow2(_)
Pow2(n) == IF n <= 0 THEN 1 ELSE 2 * Pow2(n - 1)

\* a < b on uint32_t
ULess(a, b) == IF (a >= 0) = (b >= 0) THEN a < b ELSE b < 0

\* value << n on a uint32_t (every shift of the model stays below 2^31)
Shl32(v, n) == v * Pow2(n)

\* bitwise OR of two naturals
RECURSIVE BitOr(_, _)
BitOr(a, b) ==
    IF a = 0 THEN b
    ELSE IF b = 0 THEN a
    ELSE (IF (a % 2 = 1) \/ (b % 2 = 1) THEN 1 ELSE 0)
         + 2 * BitOr(a \div 2, b \div 2)

(***************************************************************************)
(* compare_nodes: order by frequency, then by symbol.                      *)
(***************************************************************************)
Sign(a, b) == (IF a > b THEN 1 ELSE 0) - (IF a < b THEN 1 ELSE 0)

compare_nodes(na, nb) ==
    IF na.freq # nb.freq THEN Sign(na.freq, nb.freq)
    ELSE Sign(na.symbol, nb.symbol)

(***************************************************************************)
(* bit_reverse: reverse the low `bits` bits of a uint16_t.                 *)
(***************************************************************************)
RECURSIVE bit_reverse_loop(_, _, _, _)
bit_reverse_loop(result, value, i, bits) ==
    IF i >= bits THEN result
    ELSE bit_reverse_loop((result * 2 + (value % 2)) % U16, value \div 2,
                          i + 1, bits)

bit_reverse(value, bits) == bit_reverse_loop(0, value % U16, 0, bits)

(***************************************************************************)
(* huffman_build_codes, phase by phase.                                    *)
(***************************************************************************)
ZeroCode == [code |-> 0, length |-> 0]
ZeroNode == [freq |-> 0, symbol |-> 0, parent |-> 0, left |-> 0, right |-> 0]

\* memset(codes, 0, ...)
ClearedCodes(n) == [i \in 0..(n - 1) |-> ZeroCode]

\* count of non-zero frequencies
NumUsed(freq, n) == Cardinality({i \in 0..(n - 1) : freq[i] > 0})

\* num_used == 0: two dummy codes (or one when the alphabet has one symbol)
NoSymbolCodes(n) ==
    [i \in 0..(n - 1) |->
        IF i = 0 THEN [code |-> 0, length |-> 1]
        ELSE IF i = 1 THEN [code |-> 1, length |-> 1]
        ELSE ZeroCode]

\* first index with a non-zero frequency
UsedIdx(freq, n) ==
    CHOOSE i \in 0..(n - 1) :
        freq[i] > 0 /\ \A j \in 0..(i - 1) : freq[j] = 0

\* a slip in the choice of the dummy: the symbol after the used one
DummyIdxAfterUsed(used_idx) == used_idx + 1

DummyIdx(used_idx) == IF used_idx = 0 THEN 1 ELSE 0

\* num_used == 1: the symbol gets code 0, a dummy symbol gets code 1
SingleSymbolCodes(freq, n) ==
    LET used_idx == UsedIdx(freq, n)
        dummy_idx == DummyIdx(used_idx)
    IN  [i \in 0..(n - 1) |->
            IF i = dummy_idx /\ dummy_idx < n THEN [code |-> 1, length |-> 1]
            ELSE IF i = used_idx THEN [code |-> 0, length |-> 1]
            ELSE ZeroCode]

\* leaf nodes in symbol order, then qsort with compare_nodes
LeafOf(freq, i) ==
    [freq |-> freq[i], symbol |-> i, parent |-> -1, left |-> -1, right |-> -1]

\* position of symbol i's leaf after qsort(nodes, num_used, ..., compare_nodes)
SortedPos(freq, n, i) ==
    Cardinality({j \in 0..(n - 1) :
        freq[j] > 0 /\ compare_nodes(LeafOf(freq, j), LeafOf(freq, i)) < 0})

RECURSIVE PlaceLeaves(_, _, _, _)
PlaceLeaves(nd, freq, i, n) ==
    IF i >= n THEN nd
    ELSE IF freq[i] = 0 THEN PlaceLeaves(nd, freq, i + 1, n)
    ELSE PlaceLeaves([nd EXCEPT ![SortedPos(freq, n, i)] = LeafOf(freq, i)],
                     freq, i + 1, n)

\* calloc(num_used * 2) nodes, the first num_used being the sorted leaves
InitialNodes(freq, n) ==
    PlaceLeaves([k \in 0..(2 * NumUsed(freq, n) - 1) |-> ZeroNode], freq, 0, n)

\* the scan for the two root nodes of smallest frequency
RECURSIVE ScanMin(_, _, _, _)
ScanMin(nd, j, num_nodes, st) ==
    IF j >= num_nodes THEN st
    ELSE IF nd[j].parent # -1 THEN ScanMin(nd, j + 1, num_nodes, st)
    ELSE IF ULess(nd[j].freq, st.min1_freq) THEN
        ScanMin(nd, j + 1, num_nodes,
                [min1 |-> j, min1_freq |-> nd[j].freq,
                 min2 |-> st.min1, min2_freq |-> st.min1_freq])
    ELSE IF ULess(nd[j].freq, st.min2_freq) THEN
        ScanMin(nd, j + 1, num_nodes,
                [st EXCEPT !.min2 = j, !.min2_freq = nd[j].freq])
    ELSE ScanMin(nd, j + 1, num_nodes, st)

\* one merge: create the internal node num_nodes over min1 and min2
MergeOnce(nd, num_nodes) ==
    LET st == ScanMin(nd, 0, num_nodes,
                      [min1 |-> -1, min1_freq |-> UINT32_MAX,
                       min2 |-> -1, min2_freq |-> UINT32_MAX])
        created == [nd EXCEPT ![num_nodes] =
                        [freq |-> st.min1_freq + st.min2_freq, symbol |-> -1,
                         parent |-> -1, left |-> st.min1, right |-> st.min2]]
    IN  [created EXCEPT ![st.min1].parent = num_nodes,
                        ![st.min2].parent = num_nodes]

RECURSIVE BuildTree(_, _, _)
BuildTree(nd, i, num_used) ==
    IF i >= num_used - 1 THEN nd
    ELSE BuildTree(MergeOnce(nd, num_used + i), i + 1, num_used)

\* depth of a node: edges to the root
RECURSIVE Depth(_, _)
Depth(nd, node) ==
    IF nd[node].parent = -1 THEN 0 ELSE 1 + Depth(nd, nd[node].parent)

\* initial lengths: leaf depth capped at max_bits
CapDepth(depth, mb) == IF depth > mb THEN mb ELSE depth

InitialLengths(nd, num_used, n, mb) ==
    [s \in 0..(n - 1) |->
        IF \E i \in 0..(num_used - 1) : nd[i].symbol = s
        THEN CapDepth(Depth(nd, CHOOSE i \in 0..(num_used - 1) :
                                    nd[i].symbol = s), mb)
        ELSE 0]

\* histogram of the code lengths
Histogram(len, n, mb) ==
    [l \in 0..MAX_BITS |->
        IF l = 0 THEN 0
        ELSE Cardinality({i \in 0..(n - 1) : len[i] = l /\ len[i] <= mb})]

Target(mb) == Shl32(1, mb)

\* used = sum of counts[len] << (max_bits - len)
RECURSIVE UsedSum(_, _, _)
UsedSum(cnt, len, mb) ==
    IF len > mb THEN 0
    ELSE Shl32(cnt[len], mb - len) + UsedSum(cnt, len + 1, mb)

\* shortest length below max_bits that has a code, or -1
Shortest(cnt, mb) ==
    IF \E l \in 1..(mb - 1) : cnt[l] > 0
    THEN CHOOSE l \in 1..(mb - 1) :
            cnt[l] > 0 /\ \A k \in 1..(l - 1) : cnt[k] = 0
    ELSE -1

\* one iteration of the rebalancing loop on (counts, used)
RebalanceCounts(cnt, mb) ==
    LET s == Shortest(cnt, mb)
    IN  IF cnt[s] >= 2
        THEN [cnt EXCEPT ![s] = @ - 2, ![s + 1] = @ + 1]
        ELSE [cnt EXCEPT ![s] = @ - 1, ![s + 1] = @ + 1]

\* an iteration that leaves the tracked value alone
RebalanceUsedStuck(cnt, u, mb) == u

RebalanceUsed(cnt, u, mb) ==
    LET s == Shortest(cnt, mb)
    IN  IF cnt[s] >= 2
        THEN u - Shl32(1, mb - s)
        ELSE u - Shl32(1, mb - s - 1)

RebalanceDone(cnt, u, mb) == ~ULess(Target(mb), u) \/ Shortest(cnt, mb) = -1

RECURSIVE Rebalance(_, _, _)
Rebalance(cnt, u, mb) ==
    IF RebalanceDone(cnt, u, mb) THEN cnt
    ELSE Rebalance(RebalanceCounts(cnt, mb), RebalanceUsed(cnt, u, mb), mb)

\* regenerate lengths: high frequency first, each takes the shortest length left
FirstAvailable(cnt, mb) ==
    IF \E l \in 1..mb : cnt[l] > 0
    THEN CHOOSE l \in 1..mb : cnt[l] > 0 /\ \A k \in 1..(l - 1) : cnt[k] = 0
    ELSE 0

\* the same walk from the low-frequency end of the sorted leaves
RECURSIVE AssignUp(_, _, _, _, _, _)
AssignUp(nd, j, top, cnt, len, mb) ==
    IF j > top THEN len
    ELSE LET l == FirstAvailable(cnt, mb)
         IN  IF l = 0 THEN AssignUp(nd, j + 1, top, cnt, len, mb)
             ELSE AssignUp(nd, j + 1, top, [cnt EXCEPT ![l] = @ - 1],
                           [len EXCEPT ![nd[j].symbol] = l], mb)

AssignLengthsLowFirst(nd, i, cnt, len, mb) == AssignUp(nd, 0, i, cnt, len, mb)

RECURSIVE AssignLengths(_, _, _, _, _)
AssignLengths(nd, i, cnt, len, mb) ==
    IF i < 0 THEN len
    ELSE LET l == FirstAvailable(cnt, mb)
         IN  IF l = 0 THEN AssignLengths(nd, i - 1, cnt, len, mb)
             ELSE AssignLengths(nd, i - 1, [cnt EXCEPT ![l] = @ - 1],
                                [len EXCEPT ![nd[i].symbol] = l], mb)

\* canonical codes, step 1: bl_count (uint16_t)
BlCount(len, n) ==
    [l \in 0..MAX_BITS |->
        IF l = 0 THEN 0
        ELSE Cardinality({i \in 0..(n - 1) : len[i] = l}) % U16]

\* step 2: the smallest code of each length (uint16_t arithmetic)
RECURSIVE NextCodeAt(_, _)
NextCodeAt(bl, bits) ==
    IF bits = 0 THEN 0
    ELSE ((NextCodeAt(bl, bits - 1) + bl[bits - 1]) * 2) % U16

\* step 3: codes in symbol order, bit-reversed for storage
CanonicalCodes(len, n) ==
    LET bl == BlCount(len, n)
    IN  [i \in 0..(n - 1) |->
            IF len[i] > 0
            THEN LET before == Cardinality({j \in 0..(i - 1) : len[j] = len[i]})
                     value == (NextCodeAt(bl, len[i]) + before) % U16
                 IN  [code |-> bit_reverse(value, len[i]), length |-> len[i]]
            ELSE ZeroCode]

\* the whole function, as the header encoder calls it
huffman_build_codes(freq, n, mb) ==
    IF n = 0 \/ mb < 1 \/ mb > MAX_BITS THEN [ret |-> -1, codes |-> << >>]
    ELSE IF NumUsed(freq, n) = 0 THEN [ret |-> 0, codes |-> NoSymbolCodes(n)]
    ELSE IF NumUsed(freq, n) = 1
        THEN [ret |-> 0, codes |-> SingleSymbolCodes(freq, n)]
    ELSE LET nu == NumUsed(freq, n)
             nd == BuildTree(InitialNodes(freq, n), 0, nu)
             len0 == InitialLengths(nd, nu, n, mb)
             cnt0 == Histogram(len0, n, mb)
             cnt == Rebalance(cnt0, UsedSum(cnt0, 1, mb), mb)
             len == AssignLengths(nd, nu - 1, cnt, [i \in 0..(n - 1) |-> 0], mb)
         IN  [ret |-> 0, codes |-> CanonicalCodes(len, n)]

(***************************************************************************)
(* rle_encode_lengths.  The outputs symbols[] and extra[] are sequences:   *)
(* out_idx is their common length.                                         *)
(***************************************************************************)
Emit(out, sym, ex) ==
    [symbols |-> Append(out.symbols, sym), extra |-> Append(out.extra, ex)]

\* where `while (j < n && lengths[j] == v) j++` stops
RunEnd(len, n, j, v) ==
    CHOOSE k \in j..n :
        /\ (k = n \/ len[k] # v)
        /\ \A m \in j..(k - 1) : len[m] = v

\* count = 1; while (i + count < n && lengths[i + count] == 0) count++
ZeroCount(len, n, i) == RunEnd(len, n, i + 1, 0) - i

\* size of the next code-18 chunk, dropping the cap of 138
ZeroChunk18Uncapped(count) == count

\* size of the next code-18 chunk
ZeroChunk18(count) == IF count > 138 THEN 138 ELSE count

\* size of the next code-17 chunk, capped one short
ZeroChunk17Short(count) == IF count > 9 THEN 9 ELSE count

\* size of the next code-17 chunk
ZeroChunk17(count) == IF count > 10 THEN 10 ELSE count

\* while (count > 0): codes 18, 17 or literal zeros
RECURSIVE EmitZeros(_, _)
EmitZeros(out, count) ==
    IF count <= 0 THEN out
    ELSE IF count >= 11 THEN
        EmitZeros(Emit(out, 18, (ZeroChunk18(count) - 11) % 256),
                  count - ZeroChunk18(count))
    ELSE IF count >= 3 THEN
        EmitZeros(Emit(out, 17, (ZeroChunk17(count) - 3) % 256),
                  count - ZeroChunk17(count))
    ELSE EmitZeros(Emit(out, 0, 0), count - 1)

\* i += 1, then skip the remaining zeros of the run
SkipZeros(len, n, i) == RunEnd(len, n, i, 0)

\* number of entries equal to v from index i on
RepeatCount(len, n, i, v) == RunEnd(len, n, i, v) - i

RepeatChunk(count) == IF count > 6 THEN 6 ELSE count

\* while (count >= 3): code 16; then the left-over repeats as literals
RECURSIVE EmitRepeats(_, _, _)
EmitRepeats(out, v, count) ==
    IF count >= 3 THEN
        EmitRepeats(Emit(out, 16, (RepeatChunk(count) - 3) % 256), v,
                    count - RepeatChunk(count))
    ELSE IF count > 0 THEN EmitRepeats(Emit(out, v, 0), v, count - 1)
    ELSE out

\* the outer loop: while (i < num_lengths)
RECURSIVE rle_loop(_, _, _, _)
rle_loop(len, n, i, out) ==
    IF i >= n THEN out
    ELSE IF len[i] = 0 THEN
        rle_loop(len, n, SkipZeros(len, n, i + 1),
                 EmitZeros(out, ZeroCount(len, n, i)))
    ELSE LET count == RepeatCount(len, n, i + 1, len[i])
         IN  rle_loop(len, n, i + 1 + count,
                      EmitRepeats(Emit(out, len[i], 0), len[i], count))

rle_encode_lengths(len, n) ==
    rle_loop(len, n, 0, [symbols |-> << >>, extra |-> << >>])

(***************************************************************************)
(* BitWriter.  A writer is [pos, bit_buffer, bit_count]; the caller's      *)
(* buffer travels with it as buf, of capacity size.                        *)
(***************************************************************************)
bit_writer_init == [pos |-> 0, bit_buffer |-> 0, bit_count |-> 0]

\* while (bit_count >= 8): store one byte, or fail when the buffer is full
RECURSIVE FlushBytes(_, _, _)
FlushBytes(bw, buf, size) ==
    IF bw.bit_count < 8 THEN [ret |-> 0, bw |-> bw, buf |-> buf]
    ELSE IF bw.pos >= size THEN [ret |-> -1, bw |-> bw, buf |-> buf]
    ELSE FlushBytes([pos |-> bw.pos + 1,
                     bit_buffer |-> bw.bit_buffer \div 256,
                     bit_count |-> bw.bit_count - 8],
                    [buf EXCEPT ![bw.pos] = bw.bit_buffer % 256], size)

bit_writer_write(bw, buf, size, value, bits) ==
    FlushBytes([pos |-> bw.pos,
                bit_buffer |-> BitOr(bw.bit_buffer, Shl32(value, bw.bit_count)),
                bit_count |-> bw.bit_count + bits],
               buf, size)

\* flush the partial last byte, if there is room for it
bit_writer_finish(bw, buf, size) ==
    IF bw.bit_count > 0 /\ bw.pos < size
    THEN [bw |-> [bw EXCEPT !.pos = @ + 1],
          buf |-> [buf EXCEPT ![bw.pos] = bw.bit_buffer % 256]]
    ELSE [bw |-> bw, buf |-> buf]

(***************************************************************************)
(* huffman_encode_dynamic_header.                                          *)
(***************************************************************************)
NUM_LITLEN == 286
NUM_DIST == 30
NUM_CL == 19

\* code_length_order[0..18]
code_length_order ==
    [i \in 0..18 |->
        << 16, 17, 18, 0, 8, 7, 9, 6, 10, 5, 11, 4, 12, 3, 13, 2, 14, 1, 15 >>[i + 1]]

\* while (h > lo && cd[h - 1].length == 0) h--
RECURSIVE TrimLoop(_, _, _)
TrimLoop(cd, h, lo) ==
    IF h > lo /\ cd[h - 1].length = 0 THEN TrimLoop(cd, h - 1, lo) ELSE h

\* an HLIT scan that stops one entry early
HlitOfOffByOne(lit) == TrimLoop(lit, NUM_LITLEN, 258)

HlitOf(lit) == TrimLoop(lit, NUM_LITLEN, 257)

HdistOf(dist) == TrimLoop(dist, NUM_DIST, 1)

RECURSIVE HclenLoop(_, _)
HclenLoop(cl, h) ==
    IF h > 4 /\ cl[code_length_order[h - 1]].length = 0
    THEN HclenLoop(cl, h - 1) ELSE h

HclenOf(cl) == HclenLoop(cl, NUM_CL)

\* all_lengths: the first hlit literal/length lengths, then hdist distance ones
AllLengths(lit, dist, hl, hd) ==
    [i \in 0..(hl + hd - 1) |->
        IF i < hl THEN lit[i].length ELSE dist[i - hl].length]

\* cl_freq[rle_symbols[i]]++ for every RLE symbol
RECURSIVE CountSymbols(_, _, _)
CountSymbols(freq, syms, k) ==
    IF k > Len(syms) THEN freq
    ELSE CountSymbols([freq EXCEPT ![syms[k]] = @ + 1], syms, k + 1)

ClFreq(syms) == CountSymbols([s \in 0..(NUM_CL - 1) |-> 0], syms, 1)

\* number of extra bits that follow a code-length symbol
ExtraBits(sym) ==
    IF sym = 16 THEN 2 ELSE IF sym = 17 THEN 3 ELSE IF sym = 18 THEN 7 ELSE 0

\* the bit_writer_write calls of the header, in order, as <<value, bits>>
RECURSIVE RleFields(_, _, _, _)
RleFields(cl, syms, ex, k) ==
    IF k > Len(syms) THEN << >>
    ELSE << << cl[syms[k]].code, cl[syms[k]].length >> >>
         \o (IF ExtraBits(syms[k]) > 0
             THEN << << ex[k], ExtraBits(syms[k]) >> >> ELSE << >>)
         \o RleFields(cl, syms, ex, k + 1)

HeaderFields(hl, hd, hc, cl, syms, ex) ==
    << << hl - 257, 5 >>, << hd - 1, 5 >>, << hc - 4, 4 >> >>
    \o [i \in 1..hc |-> << cl[code_length_order[i - 1]].length, 3 >>]
    \o RleFields(cl, syms, ex, 1)

\* the writes, until one fails
RECURSIVE WriteFields(_, _, _, _, _)
WriteFields(fields, k, bw, buf, size) ==
    IF k > Len(fields) THEN [ret |-> 0, bw |-> bw, buf |-> buf]
    ELSE LET r == bit_writer_write(bw, buf, size, fields[k][1], fields[k][2])
         IN  IF r.ret # 0 THEN r
             ELSE WriteFields(fields, k + 1, r.bw, r.buf, size)

(***************************************************************************)
(* State.                                                                  *)
(***************************************************************************)
VARIABLES
    pc,            \* position of huffman_build_codes
    frequencies,   \* input frequency table
    num_symbols,   \* alphabet size
    max_bits,      \* requested length limit
    codes,         \* output HuffmanCode array
    ret,           \* return value
    nodes,         \* tree arena; the first num_used entries are the sorted leaves
    lengths,       \* working length array
    counts,        \* histogram of lengths
    used,          \* tracked capacity
    rle_pc,        \* position of rle_encode_lengths
    rle_lengths,   \* its input array
    num_lengths,   \* length of the input array
    rle_symbols,   \* output symbols
    rle_extra,     \* output extra-bit values
    h_pc,          \* position of huffman_encode_dynamic_header
    lit_len_codes, \* literal/length codes (286)
    dist_codes,    \* distance codes (30)
    output,        \* the caller's buffer
    output0,       \* its content before the call
    output_size,   \* its capacity
    h_ret,         \* return value
    bytes_written, \* out-parameter
    bits_in_last_byte, \* out-parameter
    hlit, hdist, hclen, \* header trim points
    cl_codes,      \* codes of the code-length alphabet
    h_symbols,     \* RLE symbols of the header
    h_extra,       \* RLE extra values of the header
    bw             \* the BitWriter

buildVars == << pc, frequencies, num_symbols, max_bits, codes, ret,
                nodes, lengths, counts, used >>

rleVars == << rle_pc, rle_lengths, num_lengths, rle_symbols, rle_extra >>

hdrVars == << h_pc, lit_len_codes, dist_codes, output, output0, output_size,
             h_ret, bytes_written, bits_in_last_byte, hlit, hdist, hclen,
             cl_codes, h_symbols, h_extra, bw >>

vars == << buildVars, rleVars, hdrVars >>

NoCounts == [l \in 0..MAX_BITS |-> 0]

BuildIdle ==
    /\ pc = "idle"
    /\ frequencies = << >>
    /\ num_symbols = 0
    /\ max_bits = 0
    /\ codes = << >>
    /\ ret = 0
    /\ nodes = << >>
    /\ lengths = << >>
    /\ counts = NoCounts
    /\ used = 0

RleIdle ==
    /\ rle_pc = "idle"
    /\ rle_lengths = << >>
    /\ num_lengths = 0
    /\ rle_symbols = << >>
    /\ rle_extra = << >>

HdrIdle ==
    /\ h_pc = "idle"
    /\ lit_len_codes = << >>
    /\ dist_codes = << >>
    /\ output = << >>
    /\ output0 = << >>
    /\ output_size = 0
    /\ h_ret = 0
    /\ bytes_written = 0
    /\ bits_in_last_byte = 0
    /\ hlit = 0 /\ hdist = 0 /\ hclen = 0
    /\ cl_codes = << >>
    /\ h_symbols = << >>
    /\ h_extra = << >>
    /\ bw = bit_writer_init

Init ==
    /\ RleIdle
    /\ HdrIdle
    /\ pc = "entry"
    /\ num_symbols \in 1..MaxSyms
    /\ frequencies \in [0..(num_symbols - 1) -> 0..MaxFreq]
    /\ max_bits \in 0..(MAX_BITS + 1)
    /\ codes = << >>
    /\ ret = 0
    /\ nodes = << >>
    /\ lengths = << >>
    /\ counts = NoCounts
    /\ used = 0

\* argument check failed: return -1
BuildReject ==
    /\ pc = "entry"
    /\ (max_bits < 1 \/ max_bits > MAX_BITS)
    /\ pc' = "done"
    /\ ret' = -1
    /\ UNCHANGED << rleVars, hdrVars >>
    /\ UNCHANGED << frequencies, num_symbols, max_bits, codes, nodes, lengths,
                    counts, used >>

\* zero or one used symbol: the degenerate codes
BuildDegenerate ==
    /\ pc = "entry"
    /\ max_bits >= 1 /\ max_bits <= MAX_BITS
    /\ NumUsed(frequencies, num_symbols) <= 1
    /\ codes' = IF NumUsed(frequencies, num_symbols) = 0
                THEN NoSymbolCodes(num_symbols)
                ELSE SingleSymbolCodes(frequencies, num_symbols)
    /\ pc' = "done"
    /\ ret' = 0
    /\ UNCHANGED << rleVars, hdrVars >>
    /\ UNCHANGED << frequencies, num_symbols, max_bits, nodes, lengths,
                    counts, used >>

\* general case up to the start of the rebalancing loop
BuildTreeAndLengths ==
    /\ pc = "entry"
    /\ max_bits >= 1 /\ max_bits <= MAX_BITS
    /\ NumUsed(frequencies, num_symbols) >= 2
    /\ LET nu == NumUsed(frequencies, num_symbols)
           nd == BuildTree(InitialNodes(frequencies, num_symbols), 0, nu)
           len0 == InitialLengths(nd, nu, num_symbols, max_bits)
           cnt0 == Histogram(len0, num_symbols, max_bits)
       IN  /\ nodes' = nd
           /\ lengths' = len0
           /\ counts' = cnt0
           /\ used' = UsedSum(cnt0, 1, max_bits)
    /\ codes' = ClearedCodes(num_symbols)
    /\ pc' = "rebalance"
    /\ UNCHANGED << rleVars, hdrVars >>
    /\ UNCHANGED << frequencies, num_symbols, max_bits, ret >>

\* one iteration of `while (used > target)` that does not break
RebalanceStep ==
    /\ pc = "rebalance"
    /\ ~RebalanceDone(counts, used, max_bits)
    /\ counts' = RebalanceCounts(counts, max_bits)
    /\ used' = RebalanceUsed(counts, used, max_bits)
    /\ UNCHANGED << rleVars, hdrVars >>
    /\ UNCHANGED << pc, frequencies, num_symbols, max_bits, codes, ret,
                    nodes, lengths >>

\* loop exit, length reassignment and canonical code generation
AssignCodes ==
    /\ pc = "rebalance"
    /\ RebalanceDone(counts, used, max_bits)
    /\ LET len == AssignLengths(nodes, NumUsed(frequencies, num_symbols) - 1,
                                counts,
                                [i \in 0..(num_symbols - 1) |-> 0], max_bits)
       IN  /\ lengths' = len
           /\ codes' = CanonicalCodes(len, num_symbols)
    /\ pc' = "done"
    /\ ret' = 0
    /\ UNCHANGED << rleVars, hdrVars >>
    /\ UNCHANGED << frequencies, num_symbols, max_bits, nodes, counts, used >>

Next ==
    \/ BuildReject
    \/ BuildDegenerate
    \/ BuildTreeAndLengths
    \/ RebalanceStep
    \/ AssignCodes

Spec == Init /\ [][Next]_vars

(***************************************************************************)
(* huffman_build_codes on the tables with at most one used symbol.         *)
(***************************************************************************)
OneUsed(n, s, f) == [i \in 0..(n - 1) |-> IF i = s THEN f ELSE 0]

InitDegenerate ==
    /\ RleIdle
    /\ HdrIdle
    /\ pc = "entry"
    /\ num_symbols \in 1..MaxSyms
    /\ \E s \in 0..(num_symbols - 1), f \in 0..MaxFreq :
          frequencies = OneUsed(num_symbols, s, f)
    /\ max_bits \in 0..(MAX_BITS + 1)
    /\ codes = << >>
    /\ ret = 0
    /\ nodes = << >>
    /\ lengths = << >>
    /\ counts = NoCounts
    /\ used = 0

NextDegenerate ==
    \/ BuildReject
    \/ BuildDegenerate

SpecDegenerate == InitDegenerate /\ [][NextDegenerate]_vars

(***************************************************************************)
(* huffman_build_codes on dyadic tables: every frequency is a power of two *)
(* and the frequencies sum to 2^MaxDepth; the table lists them in          *)
(* ascending or in descending order.  The Huffman depth of a symbol of     *)
(* frequency 2^(MaxDepth - d) is d, so these tables produce every complete *)
(* tree shape of depth at most MaxDepth, and a small max_bits caps it into *)
(* an over-subscribed histogram.  The call runs to completion once started.*)
(***************************************************************************)
\* numbers of leaves per depth d..MaxDepth that use up the capacity rem
RECURSIVE DepthCounts(_, _)
DepthCounts(d, rem) ==
    IF d = MaxDepth THEN {<< rem >>}
    ELSE UNION {{<< c >> \o t : t \in DepthCounts(d + 1, rem - c * Pow2(MaxDepth - d))} :
                    c \in 0..(rem \div Pow2(MaxDepth - d))}

RECURSIVE Deeper(_, _)
Deeper(h, d) == IF d >= MaxDepth THEN 0 ELSE h[d + 1] + Deeper(h, d + 1)

DyadicTable(h) ==
    [i \in 0..(Deeper(h, 0) - 1) |->
        Pow2(MaxDepth - (CHOOSE d \in 1..MaxDepth :
                            Deeper(h, d) <= i /\ i < Deeper(h, d) + h[d]))]

Reversed(t) ==
    [i \in DOMAIN t |-> t[Cardinality(DOMAIN t) - 1 - i]]

InitDyadic ==
    /\ RleIdle
    /\ HdrIdle
    /\ pc = "entry"
    /\ \E h \in DepthCounts(1, Pow2(MaxDepth)), descending \in BOOLEAN :
          /\ num_symbols = Deeper(h, 0)
          /\ frequencies = IF descending THEN Reversed(DyadicTable(h))
                           ELSE DyadicTable(h)
    /\ max_bits \in (1..MaxDepth) \cup {MAX_BITS}
    /\ codes = << >>
    /\ ret = 0
    /\ nodes = << >>
    /\ lengths = << >>
    /\ counts = NoCounts
    /\ used = 0

\* num_nodes: the leaves plus the internal nodes created so far
NumNodes(nd, num_used) ==
    num_used + Cardinality({k \in DOMAIN nd : nd[k].symbol = -1})

\* general case up to the start of the merge loop: the sorted leaves
TreeStart ==
    /\ pc = "entry"
    /\ max_bits >= 1 /\ max_bits <= MAX_BITS
    /\ NumUsed(frequencies, num_symbols) >= 2
    /\ nodes' = InitialNodes(frequencies, num_symbols)
    /\ codes' = ClearedCodes(num_symbols)
    /\ pc' = "merge"
    /\ UNCHANGED << rleVars, hdrVars >>
    /\ UNCHANGED << frequencies, num_symbols, max_bits, ret, lengths, counts,
                    used >>

\* one iteration of the merge loop
MergeStep ==
    /\ pc = "merge"
    /\ LET nu == NumUsed(frequencies, num_symbols)
       IN  /\ NumNodes(nodes, nu) < 2 * nu - 1
           /\ nodes' = MergeOnce(nodes, NumNodes(nodes, nu))
    /\ UNCHANGED << rleVars, hdrVars >>
    /\ UNCHANGED << pc, frequencies, num_symbols, max_bits, codes, ret,
                    lengths, counts, used >>

\* the tree is complete: capped depths, their histogram and its capacity
CapLengths ==
    /\ pc = "merge"
    /\ LET nu == NumUsed(frequencies, num_symbols)
           len0 == InitialLengths(nodes, nu, num_symbols, max_bits)
           cnt0 == Histogram(len0, num_symbols, max_bits)
       IN  /\ NumNodes(nodes, nu) = 2 * nu - 1
           /\ lengths' = len0
           /\ counts' = cnt0
           /\ used' = UsedSum(cnt0, 1, max_bits)
    /\ pc' = "rebalance"
    /\ UNCHANGED << rleVars, hdrVars >>
    /\ UNCHANGED << frequencies, num_symbols, max_bits, codes, ret, nodes >>

NextDyadic ==
    \/ TreeStart
    \/ MergeStep
    \/ CapLengths
    \/ RebalanceStep
    \/ AssignCodes

SpecDyadic == InitDyadic /\ [][NextDyadic]_vars

\* the loop body runs whenever the loop condition holds
FairSpecDyadic == SpecDyadic /\ WF_vars(RebalanceStep)

(***************************************************************************)
(* rle_encode_lengths on its own: the input array is three runs,           *)
(* a short one, a run of any explored length, and a short one.             *)
(***************************************************************************)
MidLens == (0..MaxMid) \cup {138 + d : d \in 0..MaxOver}

ThreeRuns(va, na, vb, nb, vc, nc) ==
    [i \in 0..(na + nb + nc - 1) |->
        IF i < na THEN va ELSE IF i < na + nb THEN vb ELSE vc]

InitRle ==
    /\ BuildIdle
    /\ HdrIdle
    /\ rle_pc = "entry"
    /\ \E va \in 0..MaxVal, na \in 0..MaxEdge, vb \in 0..MaxVal, nb \in MidLens,
          vc \in 0..MaxVal, nc \in 0..MaxEdge :
            /\ rle_lengths = ThreeRuns(va, na, vb, nb, vc, nc)
            /\ num_lengths = na + nb + nc
    /\ rle_symbols = << >>
    /\ rle_extra = << >>

RleEncode ==
    /\ rle_pc = "entry"
    /\ LET out == rle_encode_lengths(rle_lengths, num_lengths)
       IN  /\ rle_symbols' = out.symbols
           /\ rle_extra' = out.extra
    /\ rle_pc' = "done"
    /\ UNCHANGED << rle_lengths, num_lengths >>
    /\ UNCHANGED << buildVars, hdrVars >>

NextRle == RleEncode

SpecRle == InitRle /\ [][NextRle]_vars

(***************************************************************************)
(* Decoder of the code-length alphabet (RFC 1951 3.2.7), used to state the *)
(* round trip.  Extra values are read at their field width.                *)
(***************************************************************************)
Repeat(seq, v, k) == seq \o [j \in 1..k |-> v]

RECURSIVE RleDecode(_, _, _, _)
RleDecode(syms, ex, k, acc) ==
    IF k > Len(syms) THEN acc
    ELSE IF syms[k] = 16 THEN
        RleDecode(syms, ex, k + 1,
                  Repeat(acc, IF Len(acc) = 0 THEN 0 ELSE acc[Len(acc)],
                         3 + (ex[k] % 4)))
    ELSE IF syms[k] = 17 THEN
        RleDecode(syms, ex, k + 1, Repeat(acc, 0, 3 + (ex[k] % 8)))
    ELSE IF syms[k] = 18 THEN
        RleDecode(syms, ex, k + 1, Repeat(acc, 0, 11 + (ex[k] % 128)))
    ELSE RleDecode(syms, ex, k + 1, Append(acc, syms[k]))

AsSeq(len, n) == [k \in 1..n |-> len[k - 1]]

RleOk == rle_pc = "done"

\* C6: decoding the (symbol, extra) stream of rle_encode_lengths under the
\* code-length alphabet reproduces the input array, entry for entry.
C6_RleRoundTrip ==
    RleOk =>
        /\ Len(rle_symbols) = Len(rle_extra)
        /\ \A k \in 1..Len(rle_symbols) :
              rle_symbols[k] \in 0..18 /\ (rle_symbols[k] = 16 => k > 1)
        /\ RleDecode(rle_symbols, rle_extra, 1, << >>)
              = AsSeq(rle_lengths, num_lengths)

\* C6 witness: a zero run longer than 138 between non-zero runs was encoded
C6_Witness ==
    /\ RleOk
    /\ num_lengths > 140
    /\ rle_lengths[0] # 0 /\ rle_lengths[num_lengths - 1] # 0
    /\ \E k \in 1..(Len(rle_symbols) - 1) :
          /\ rle_symbols[k] = 18 /\ rle_extra[k] = 127
          /\ rle_symbols[k + 1] \in {0, 17, 18}

(***************************************************************************)
(* Properties of huffman_build_codes.                                      *)
(***************************************************************************)
BuildOk == pc = "done" /\ ret = 0

UsedCount == NumUsed(frequencies, num_symbols)

Coded == {i \in 0..(num_symbols - 1) : codes[i].length > 0}

\* sum of 2^(max_bits - length) over the symbols that have a code
RECURSIVE KraftSum(_, _, _)
KraftSum(cd, n, mb) ==
    IF n = 0 THEN 0
    ELSE (IF cd[n - 1].length > 0 THEN Pow2(mb - cd[n - 1].length) ELSE 0)
         + KraftSum(cd, n - 1, mb)

\* the canonical (pre-reversal) value of a stored code
Unreversed(c) == bit_reverse(c.code, c.length)

\* code a, read as a length-bit string, is a prefix of (or equal to) code b
IsPrefixOf(a, b) ==
    /\ a.length <= b.length
    /\ Unreversed(b) \div Pow2(b.length - a.length) = Unreversed(a)

\* C1: a successful call returns lengths whose Kraft sum, the sum of
\* 2^(max_bits - length) over coded symbols, is at most 2^max_bits.
C1_KraftWithinCapacity ==
    BuildOk => KraftSum(codes, num_symbols, max_bits) <= Pow2(max_bits)

\* C2: with at least two used symbols the Kraft sum is exactly 2^max_bits
\* (the code is complete), also after the rebalancing loop ran.
C2_KraftComplete ==
    (BuildOk /\ UsedCount >= 2)
        => KraftSum(codes, num_symbols, max_bits) = Pow2(max_bits)

\* C3: in the general case a symbol has a code length in 1..max_bits if and
\* only if its frequency is non-zero.
C3_UsedIffCoded ==
    (BuildOk /\ UsedCount >= 2)
        => \A i \in 0..(num_symbols - 1) :
              (frequencies[i] > 0) <=> (codes[i].length \in 1..max_bits)

\* C4: for all inputs, two symbols i < j with the same non-zero length have
\* strictly increasing code values before bit reversal.
C4_SameLengthIncreasing ==
    BuildOk
        => \A i \in Coded : \A j \in Coded :
              (i < j /\ codes[i].length = codes[j].length)
                  => Unreversed(codes[i]) < Unreversed(codes[j])

\* C5: after a successful call the codes of the coded symbols are prefix-free:
\* no code is equal to or a prefix of the code of another symbol.
C5_PrefixFree ==
    BuildOk
        => \A i \in Coded : \A j \in Coded :
              i # j => ~IsPrefixOf(codes[i], codes[j])

\* C10: with exactly one used symbol s in an alphabet of at least two symbols,
\* codes[s] = {0, 1}, the dummy d (1 if s = 0, else 0) has codes[d] = {1, 1},
\* and every other symbol has length 0.
C10_SingleSymbol ==
    (BuildOk /\ UsedCount = 1 /\ num_symbols >= 2)
        => \E s \in 0..(num_symbols - 1) :
              /\ frequencies[s] > 0
              /\ codes[s] = [code |-> 0, length |-> 1]
              /\ \E d \in {0, 1} :
                    /\ d = (IF s = 0 THEN 1 ELSE 0)
                    /\ codes[d] = [code |-> 1, length |-> 1]
                    /\ \A i \in 0..(num_symbols - 1) :
                          (i # s /\ i # d) => codes[i].length = 0

\* C10 witness: a finished call whose only used symbol is neither 0 nor 1
C10_Witness ==
    /\ BuildOk /\ UsedCount = 1 /\ num_symbols >= 3
    /\ frequencies[2] > 0
    /\ codes[0].length = 1

(***************************************************************************)
(* huffman_encode_dynamic_header on its own.  The literal/length table has *)
(* a short run at its start and one entry near index 256 or near the end;  *)
(* the distance table has one entry near either end.  The pointers are     *)
(* valid and the allocations succeed.                                      *)
(***************************************************************************)
LenVals == (0..MaxLenVal) \cup {MAX_BITS}

LitPositions ==
    {256 + d : d \in (-1)..MaxStep} \cup {NUM_LITLEN - 1 - d : d \in 0..MaxStep}

DistPositions ==
    {d : d \in 0..MaxStep} \cup {NUM_DIST - 1 - d : d \in 0..MaxStep}

LitTable(a, p, w) ==
    [i \in 0..(NUM_LITLEN - 1) |->
        [code |-> 0, length |-> IF i < a \/ i = p THEN w ELSE 0]]

DistTable(p, w) ==
    [i \in 0..(NUM_DIST - 1) |->
        [code |-> 0, length |-> IF i = p THEN w ELSE 0]]

InitHeader ==
    /\ BuildIdle
    /\ RleIdle
    /\ h_pc = "entry"
    /\ \E a \in 0..MaxHead, p \in LitPositions, w \in LenVals :
          lit_len_codes = LitTable(a, p, w)
    /\ \E p \in DistPositions, w \in 0..1 : dist_codes = DistTable(p, w)
    /\ output_size \in 0..MaxOut
    /\ \E fill \in {0, 255} : output0 = [i \in 0..(output_size - 1) |-> fill]
    /\ output = output0
    /\ h_ret = 0
    /\ bytes_written = 0
    /\ bits_in_last_byte = 0
    /\ hlit = 0 /\ hdist = 0 /\ hclen = 0
    /\ cl_codes = << >>
    /\ h_symbols = << >>
    /\ h_extra = << >>
    /\ bw = bit_writer_init

\* bit_writer_init, the trim points HLIT and HDIST, and the RLE of all_lengths
HeaderScan ==
    /\ h_pc = "entry"
    /\ LET hl == HlitOf(lit_len_codes)
           hd == HdistOf(dist_codes)
           rle == rle_encode_lengths(AllLengths(lit_len_codes, dist_codes, hl, hd),
                                     hl + hd)
       IN  /\ hlit' = hl
           /\ hdist' = hd
           /\ h_symbols' = rle.symbols
           /\ h_extra' = rle.extra
    /\ bw' = bit_writer_init
    /\ h_pc' = "scanned"
    /\ UNCHANGED << lit_len_codes, dist_codes, output, output0, output_size,
                    h_ret, bytes_written, bits_in_last_byte, hclen, cl_codes >>
    /\ UNCHANGED << buildVars, rleVars >>

\* the codes of the code-length alphabet, and HCLEN
HeaderBuildCl ==
    /\ h_pc = "scanned"
    /\ LET built == huffman_build_codes(ClFreq(h_symbols), NUM_CL, MAX_CL_BITS)
       IN  IF built.ret # 0
           THEN /\ h_ret' = -1
                /\ h_pc' = "done"
                /\ UNCHANGED << cl_codes, hclen >>
           ELSE /\ cl_codes' = built.codes
                /\ hclen' = HclenOf(built.codes)
                /\ h_pc' = "built"
                /\ UNCHANGED h_ret
    /\ UNCHANGED << lit_len_codes, dist_codes, output, output0, output_size,
                    bytes_written, bits_in_last_byte, hlit, hdist,
                    h_symbols, h_extra, bw >>
    /\ UNCHANGED << buildVars, rleVars >>

\* the writes; then either the error return or the finish and the results
HeaderWrite ==
    /\ h_pc = "built"
    /\ LET w == WriteFields(HeaderFields(hlit, hdist, hclen, cl_codes,
                                         h_symbols, h_extra),
                            1, bw, output, output_size)
           f == bit_writer_finish(w.bw, w.buf, output_size)
       IN  IF w.ret # 0
           THEN /\ h_ret' = -1
                /\ bw' = w.bw
                /\ output' = w.buf
                /\ UNCHANGED << bytes_written, bits_in_last_byte >>
           ELSE /\ h_ret' = 0
                /\ bits_in_last_byte' = w.bw.bit_count
                /\ bw' = IF w.bw.bit_count > 0 THEN f.bw ELSE w.bw
                /\ output' = IF w.bw.bit_count > 0 THEN f.buf ELSE w.buf
                /\ bytes_written' = IF w.bw.bit_count > 0 THEN f.bw.pos
                                    ELSE w.bw.pos
    /\ h_pc' = "done"
    /\ UNCHANGED << lit_len_codes, dist_codes, output0, output_size,
                    hlit, hdist, hclen, cl_codes, h_symbols, h_extra >>
    /\ UNCHANGED << buildVars, rleVars >>

NextHeader ==
    \/ HeaderScan
    \/ HeaderBuildCl
    \/ HeaderWrite


SpecHeader == InitHeader /\ [][NextHeader]_vars

(***************************************************************************)
(* Properties of huffman_encode_dynamic_header.                            *)
(***************************************************************************)
HeaderDone == h_pc = "done"

\* the header's writes, from the values the call computed
WrittenFields ==
    HeaderFields(hlit, hdist, hclen, cl_codes, h_symbols, h_extra)

RECURSIVE WidthSum(_, _)
WidthSum(fields, k) ==
    IF k = 0 THEN 0 ELSE fields[k][2] + WidthSum(fields, k - 1)

TotalBits == WidthSum(WrittenFields, Len(WrittenFields))

BytesNeeded == (TotalBits + 7) \div 8

\* bit b of the header's bit stream: the fields in order, each LSB first
RECURSIVE StreamBit(_, _, _)
StreamBit(fields, k, b) ==
    IF b < fields[k][2] THEN (fields[k][1] \div Pow2(b)) % 2
    ELSE StreamBit(fields, k + 1, b - fields[k][2])

\* bit b of a byte buffer, bytes filled from their least significant bit
BufferBit(buf, b) == (buf[b \div 8] \div Pow2(b % 8)) % 2

\* C7: the header encoder never silently truncates: whenever it returns
\* success the buffer was large enough for every header bit, partial last byte
\* included, every bit is in the buffer, and bytes_written is
\* ceil(total_bits / 8).
C7_NoSilentTruncation ==
    (HeaderDone /\ h_ret = 0)
        => /\ BytesNeeded <= output_size
           /\ bytes_written = BytesNeeded
           /\ \A b \in 0..(TotalBits - 1) :
                 BufferBit(output, b) = StreamBit(WrittenFields, 1, b)

\* C8: whenever the header encoder returns an error, for any output_size, no
\* byte of the caller's buffer has been modified; with output_size = 0 the
\* call returns an error and writes nothing.
C8_NoPartialWrite ==
    /\ (HeaderDone /\ h_ret # 0) => output = output0
    /\ (HeaderDone /\ output_size = 0) => (h_ret # 0 /\ output = output0)

LitZeroFrom(h) ==
    \A i \in h..(NUM_LITLEN - 1) : lit_len_codes[i].length = 0

DistZeroFrom(h) ==
    \A i \in h..(NUM_DIST - 1) : dist_codes[i].length = 0

ClZeroFrom(h) ==
    \A i \in h..(NUM_CL - 1) : cl_codes[code_length_order[i]].length = 0

\* C9: HLIT is the smallest value in 257..286 with every literal/length entry
\* at index >= HLIT of length 0, HDIST the smallest such value in 1..30 for
\* the distance entries, HCLEN the smallest value in 4..19 with every
\* code-length symbol at position >= HCLEN of the fixed order of length 0;
\* and the first 14 bits in the buffer are HLIT-257 (5 bits), HDIST-1
\* (5 bits), HCLEN-4 (4 bits), LSB first, in that order.
C9_TrimPointsMinimal ==
    HeaderDone =>
        /\ hlit \in 257..286 /\ LitZeroFrom(hlit)
        /\ \A g \in 257..(hlit - 1) : ~LitZeroFrom(g)
        /\ hdist \in 1..30 /\ DistZeroFrom(hdist)
        /\ \A g \in 1..(hdist - 1) : ~DistZeroFrom(g)
        /\ hclen \in 4..19 /\ ClZeroFrom(hclen)
        /\ \A g \in 4..(hclen - 1) : ~ClZeroFrom(g)
        /\ output_size >= 2 =>
              (output[0] + 256 * output[1]) % 16384
                  = (hlit - 257) + 32 * (hdist - 1) + 1024 * (hclen - 4)

\* C9 witness: a finished call with all three trim points strictly inside
\* their ranges and the first two bytes in the buffer
C9_Witness ==
    /\ HeaderDone /\ h_ret = 0
    /\ hlit \in 258..285
    /\ hdist \in 2..29
    /\ hclen \in 5..18

\* the histogram and tracked capacity the rebalancing loop started from
StartCounts == Histogram(lengths, num_symbols, max_bits)

StartUsed == UsedSum(StartCounts, 1, max_bits)

\* the loop is over: used <= target, or no length below max_bits has a code
LoopExit ==
    \/ ~ULess(Target(max_bits), used)
    \/ \A l \in 1..(max_bits - 1) : counts[l] = 0

\* C11: the rebalancing loop terminates: every iteration that does not break
\* makes `used` strictly smaller as an unsigned value (so it never wraps
\* below zero) and leaves max_bits, hence target, alone; and once the loop is
\* entered it reaches its exit, with used <= target or with no code left at
\* any length below max_bits.
C11_RebalanceTerminates ==
    /\ [][RebalanceStep => (ULess(used', used) /\ used' >= 0
                            /\ max_bits' = max_bits)]_vars
    /\ (pc = "rebalance") ~> (pc = "rebalance" /\ LoopExit)

\* C11 witness: inside the loop after an iteration, with used smaller than
\* at the start, still above target, and another iteration to come
C11_Witness ==
    /\ pc = "rebalance"
    /\ ULess(used, StartUsed)
    /\ ULess(Target(max_bits), used)
    /\ ~RebalanceDone(counts, used, max_bits)

\* C12: in the general case, of two symbols that both receive a code the one
\* with the higher frequency never has the longer code, rebalanced or not.
C12_FrequencyMonotone ==
    (BuildOk /\ UsedCount >= 2) =>
        \A a \in Coded : \A b \in Coded :
            frequencies[a] > frequencies[b]
                => codes[a].length <= codes[b].length

\* C12 witness: a finished general-case call whose histogram was rebalanced
\* and that gave a more frequent symbol a strictly shorter code
C12_Witness ==
    /\ BuildOk /\ UsedCount >= 2
    /\ counts # Histogram(InitialLengths(nodes, UsedCount, num_symbols,
                                         max_bits), num_symbols, max_bits)
    /\ \E a \in Coded : \E b \in Coded :
          /\ frequencies[a] > frequencies[b]
          /\ codes[a].length < codes[b].length
          /\ a > b

(***************************************************************************)
(* Zero runs of the RLE input and the symbols that encode them.            *)
(***************************************************************************)
\* the numbers of zeros one symbol can stand for: literal 0, code 17, code 18
ZeroChunks == {1} \cup (3..10) \cup (11..138)

\* n zeros can be covered exactly by m such symbols
RECURSIVE CanCover(_, _)
CanCover(n, m) ==
    IF m = 0 THEN n = 0
    ELSE \E c \in ZeroChunks : c <= n /\ CanCover(n - c, m - 1)

\* the fewest symbols that cover exactly n >= 1 zeros
MinSymbols(n) ==
    CHOOSE m \in 1..n : CanCover(n, m) /\ \A k \in 1..(m - 1) : ~CanCover(n, k)

\* first indices of the maximal zero runs of the input, and their lengths
ZeroRunStarts ==
    {i \in 0..(num_lengths - 1) :
        rle_lengths[i] = 0 /\ (i = 0 \/ rle_lengths[i - 1] # 0)}

ZeroRunLength(i) == RunEnd(rle_lengths, num_lengths, i, 0) - i

RECURSIVE MinTotal(_)
MinTotal(starts) ==
    IF starts = {} THEN 0
    ELSE LET i == CHOOSE x \in starts : TRUE
         IN  MinSymbols(ZeroRunLength(i)) + MinTotal(starts \ {i})

\* the emitted symbols that stand for zeros, and the zeros they stand for
ZeroSymbols == {k \in 1..Len(rle_symbols) : rle_symbols[k] \in {0, 17, 18}}

RECURSIVE ZerosCovered(_)
ZerosCovered(k) ==
    IF k = 0 THEN 0
    ELSE ZerosCovered(k - 1)
         + (IF rle_symbols[k] = 0 THEN 1
            ELSE IF rle_symbols[k] = 17 THEN 3 + rle_extra[k]
            ELSE IF rle_symbols[k] = 18 THEN 11 + rle_extra[k]
            ELSE 0)

CoversTheZeros ==
    ZerosCovered(Len(rle_symbols))
        = Cardinality({i \in 0..(num_lengths - 1) : rle_lengths[i] = 0})

\* the runs that end in two zeros after one or more full code-18 chunks
TwoLeftOver == {i \in ZeroRunStarts :
                    ZeroRunLength(i) > 138 /\ ZeroRunLength(i) % 138 = 2}

\* C13 as stated: every zero run is encoded with the fewest symbols that cover
\* exactly its zeros with literal 0 (1), code 17 (3..10) and code 18 (11..138).
C13_ZeroRunsMinimal ==
    RleOk =>
        /\ CoversTheZeros
        /\ Cardinality(ZeroSymbols) = MinTotal(ZeroRunStarts)

\* C13 amended: every zero run is encoded with the fewest such symbols, except
\* a run of 138k + 2 zeros (k >= 1), which takes k codes 18 and two literal
\* zeros, one symbol more than the fewest.
C13_ZeroRunsGreedy ==
    RleOk =>
        /\ CoversTheZeros
        /\ Cardinality(ZeroSymbols)
              = MinTotal(ZeroRunStarts) + Cardinality(TwoLeftOver)

\* C13 witness: a run of 140 zeros was encoded as code 18 (138) and two
\* literal zeros
C13_Witness ==
    /\ RleOk
    /\ \E i \in ZeroRunStarts : ZeroRunLength(i) = 140
    /\ \E k \in 1..(Len(rle_symbols) - 2) :
          /\ rle_symbols[k] = 18 /\ rle_extra[k] = 127
          /\ rle_symbols[k + 1] = 0 /\ rle_symbols[k + 2] = 0

=============================================================================
